---- MODULE Spec2Model ----
(***************************************************************************)
(* A model of streamlit_app.py: the list/detail crawler, its session state  *)
(* (S.results, S.config, S.ran and the blob_<idx>_<ai> / name_<idx>_<ai>    *)
(* entries), the eager prefetch of attachments, the lazy "prepare" callback *)
(* and the bulk selection download.                                         *)
(*                                                                          *)
(* The script is re-executed from its first line on every widget            *)
(* interaction.  A script run is modelled as a sequential process (pc);     *)
(* user events are taken when no script run is in progress.  Strings that   *)
(* the code inspects character by character (onclick handlers, URL paths,   *)
(* the extension filter) are sequences of one-character strings.  The       *)
(* remote portal is free to answer every request differently.               *)
(*                                                                          *)
(* Three specifications: Spec is the session (buttons, crawl loop,          *)
(* prefetch, lazy preparation), explored up to MaxRequests HTTP requests    *)
(* and MaxRuns script runs; SpecList applies fetch_list_page's parsing to    *)
(* any list page of up to MaxListCells cells; SpecBulk applies the bulk      *)
(* download section to any accumulator of up to MaxBulkRows rows.           *)
(* requests, runs, resp, last_sleep, crawled, outcomes, lastEvent and snap  *)
(* are history variables: they record what happened and steer nothing but   *)
(* the two exploration bounds.  Streamlit's own failures (a widget key      *)
(* rendered twice in one run, an interaction that interrupts a running      *)
(* script) are outside the model.                                           *)
(***************************************************************************)
EXTENDS Integers, Sequences, FiniteSets, TLC

\* ------------------------------------------------------------------ bounds
MaxPage == 2

MaxAtt == 2

MaxRequests == 6

MaxRuns == 3

MaxListCells == 3

MaxBulkRows == 2

\* ------------------------------------------------------- program constants
MiB == 1048576

BoundedSeq(S, n) == UNION {[1..k -> S] : k \in 0..n}

Range(s) == {s[i] : i \in 1..Len(s)}

MinOf(S) == CHOOSE x \in S : \A y \in S : x <= y

MaxOf(S) == CHOOSE x \in S : \A y \in S : x >= y

\* ----------------------------------------------------------- list parsing
Digits == {"0", "1", "2", "3", "4", "5", "6", "7", "8", "9"}

NoIdx == <<>>

RECURSIVE DigitRun(_, _)
DigitRun(s, i) ==
    IF i <= Len(s) /\ s[i] \in Digits THEN 1 + DigitRun(s, i + 1) ELSE 0

\* the pattern \((\d+)\) matches at position i
MatchAt(s, i) ==
    /\ s[i] = "("
    /\ LET k == DigitRun(s, i + 1)
       IN  k >= 1 /\ i + k + 1 <= Len(s) /\ s[i + k + 1] = ")"

\* re.search: the leftmost match; None (and the empty string of `onclick or ""`)
\* is NoIdx
extract_idx_from_onclick(onclick) ==
    LET hits == {i \in 1..Len(onclick) : MatchAt(onclick, i)}
    IN  IF hits = {} THEN NoIdx
        ELSE LET i == MinOf(hits)
             IN  SubSeq(onclick, i + 1, i + DigitRun(onclick, i + 1))

SkipCellNoDedup(idx, seen) == idx = NoIdx

\* `if not idx or idx in seen: continue`
SkipCell(idx, seen) == idx = NoIdx \/ idx \in seen

RECURSIVE ListLoop(_, _, _, _)
ListLoop(cells, i, rows, seen) ==
    IF i > Len(cells) THEN rows
    ELSE LET cell == cells[i]
             idx == extract_idx_from_onclick(cell.onclick)
         IN  IF ~cell.link THEN ListLoop(cells, i + 1, rows, seen)
             ELSE IF SkipCell(idx, seen) THEN ListLoop(cells, i + 1, rows, seen)
             ELSE ListLoop(cells, i + 1,
                           Append(rows, [idx |-> idx, title |-> cell.text]),
                           seen \cup {idx})

\* the rows built from the .td_lft cells of a list page
fetch_list_page(cells) == ListLoop(cells, 1, <<>>, {})

\* sample onclick attributes; <<>> is an absent (or empty) attribute
OnclickSamples ==
    { <<"g", "(", "7", ")">>,
      <<"(", "8", ")">>,
      <<"(", "7", "8", ")">>,
      <<"g", "(", ")">>,
      <<"(", "x", ")", "(", "7", ")">>,
      <<"(", "7">>,
      <<>> }

Titles == {"A", "B"}

\* a .td_lft cell: whether it holds a .linkTxt element, that element's onclick,
\* and the cell's whitespace-normalised text
ListCells ==
    {[link |-> FALSE, onclick |-> <<>>, text |-> t] : t \in Titles}
    \cup {[link |-> TRUE, onclick |-> o, text |-> t] :
              o \in OnclickSamples, t \in Titles}

Cell7 == [link |-> TRUE, onclick |-> <<"g", "(", "7", ")">>, text |-> "A"]

Cell8 == [link |-> TRUE, onclick |-> <<"(", "8", ")">>, text |-> "A"]

CellNoLink == [link |-> FALSE, onclick |-> <<>>, text |-> "A"]

\* the list pages the crawl's requests can return: no row, one row, two rows
\* (with a cell without link and a repeated idx in between)
ListPageSamples ==
    { <<>>,
      <<Cell7>>,
      <<Cell7, CellNoLink, Cell7, Cell8>> }

\* ------------------------------------------------------------- attachments
\* an attachment URL: the path and the query that urlparse separates
UrlSamples ==
    << [path |-> <<"a", ".", "z", "i", "p">>, query |-> <<>>],
       [path |-> <<"b", ".", "P", "D", "F">>, query |-> <<>>],
       [path |-> <<"d", ".", "a", "s", "p">>, query |-> <<"f", "=", "x", ".", "p", "d", "f">>] >>

\* the href of the i-th anchor (document order) of a detail page
DocUrl(i) == UrlSamples[((i - 1) % Len(UrlSamples)) + 1]

\* the anchors under .commonBoardView--items .viewpage_addfile, in document order
find_attachments_from_g_archive(n_anchors) == [i \in 1..n_anchors |-> DocUrl(i)]

\* downloaded sizes, around the prefetch limit
SizeSamples == {10 * MiB, 10 * MiB + 1}

MaxMbSamples == {10}

\* download_binary: raises, or returns the file name (no Content-Disposition:
\* the basename of the URL path) and the bytes (their number)
download_binary(url) ==
    {[kind |-> "download", ok |-> FALSE]}
    \cup {[kind |-> "download", ok |-> TRUE, name |-> url.path, nbytes |-> n] :
              n \in SizeSamples}

ListStatus == {[kind |-> "list", ok |-> FALSE], [kind |-> "list", ok |-> TRUE]}

never_raises(r) == FALSE

\* r.raise_for_status() raises on a non-2xx response or a transport error
raise_for_status(r) == ~r.ok

OverLimitInclusive(nbytes, limit_bytes) == nbytes >= limit_bytes

\* `data.getbuffer().nbytes > limit_bytes`
OverLimit(nbytes, limit_bytes) == nbytes > limit_bytes

\* f"blob_{idx}_{ai}" and f"name_{idx}_{ai}": idx is a digit string, so the
\* pair determines the key
Key(idx, a) == <<idx, a>>

EmptyDict == <<>>

NoRow == <<>>

NoResp == [kind |-> "none", ok |-> TRUE]

NoSnap == <<>>

\* --------------------------------------------------------------- the inputs
Sources == {"ipsi_news", "g_archive"}

DefaultExtFilter == <<"z", "i", "p", ",", "p", "d", "f">>

\* S.config as the run button builds it from the sidebar (cookies, headers,
\* verify_ssl and delay_sec are passed through to the requests and the sleeps)
Configs ==
    {[source_name |-> "ipsi_news", start_page |-> s, end_page |-> e,
      prefetch |-> FALSE, max_prefetch_mb |-> 50,
      want_download |-> FALSE, ext_filter |-> <<>>] :
         s \in 1..MaxPage, e \in 1..MaxPage}
    \cup {[source_name |-> "g_archive", start_page |-> s, end_page |-> e,
           prefetch |-> p, max_prefetch_mb |-> m,
           want_download |-> TRUE, ext_filter |-> DefaultExtFilter] :
              s \in 1..MaxPage, e \in 1..MaxPage, p \in BOOLEAN, m \in MaxMbSamples}

\* the end-page input has min_value=start_page
ValidConfigs == {c \in Configs : c.start_page <= c.end_page}

\* ---------------------------------------------------------------- the state
VARIABLES
    results, config, ran, S_name, S_blob,
    pc, page, items, done_pages, pbar, row, ai, buttons, warned,
    requests, runs, resp, last_sleep, crawled, outcomes, lastEvent, snap,
    markup, selected, bulk

sessionVars == <<results, config, ran, S_name, S_blob>>

runVars == <<pc, page, items, done_pages, pbar, row, ai, buttons, warned>>

obsVars == <<requests, runs, resp, last_sleep, crawled, outcomes, lastEvent, snap>>

pureVars == <<markup, selected, bulk>>

vars == <<sessionVars, runVars, obsVars, pureVars>>

\* the session after the first script run: nothing crawled, nothing prepared
Init ==
    /\ results = <<>> /\ config = EmptyDict /\ ran = FALSE
    /\ S_name = EmptyDict /\ S_blob = EmptyDict
    /\ pc = "idle" /\ page = 0 /\ items = <<>> /\ done_pages = 0 /\ pbar = 0
    /\ row = NoRow /\ ai = 0 /\ buttons = {} /\ warned = FALSE
    /\ requests = 0 /\ runs = 0 /\ resp = NoResp /\ last_sleep = "none"
    /\ crawled = <<>> /\ outcomes = <<>> /\ lastEvent = "none" /\ snap = NoSnap
    /\ markup = <<>> /\ selected = {} /\ bulk = {}

\* no script run is in progress: the user can act on the page
Idle == pc \in {"idle", "done", "halted"}

\* `if S.ran and S.config:` and the set-up of the crawl loop, for the session
\* state (r, c, rn) the button handlers leave
ScriptBody(r, c, rn) ==
    /\ results' = r /\ config' = c /\ ran' = rn
    /\ IF rn /\ DOMAIN c # {}
       THEN pc' = "list" /\ page' = c.start_page
       ELSE pc' = "idle" /\ page' = 0
    /\ items' = <<>> /\ done_pages' = 0 /\ pbar' = 0 /\ row' = NoRow /\ ai' = 0
    /\ buttons' = {} /\ crawled' = <<>> /\ outcomes' = <<>>
    /\ last_sleep' = "none" /\ runs' = runs + 1

\* the run button: the accumulator is cleared, the configuration captured, then the
\* crawl starts
ClickRun ==
    /\ Idle /\ runs < MaxRuns
    /\ \E cfg \in ValidConfigs : ScriptBody(<<>>, cfg, TRUE)
    /\ warned' = FALSE /\ resp' = NoResp /\ lastEvent' = "run" /\ snap' = NoSnap
    /\ UNCHANGED <<S_name, S_blob, requests, pureVars>>

ResetKeepsResults == [results |-> results, config |-> EmptyDict, ran |-> FALSE]

\* S.results = []; S.config = {}; S.ran = False
ResetSession == [results |-> <<>>, config |-> EmptyDict, ran |-> FALSE]

ResetKeepsFiles == [names |-> S_name, blobs |-> S_blob]

\* `for k in list(S.keys()): if k.startswith(("blob_", "name_")): del S[k]`
ResetPrepared == [names |-> EmptyDict, blobs |-> EmptyDict]

\* the reset button
ClickReset ==
    /\ Idle /\ runs < MaxRuns
    /\ ScriptBody(ResetSession.results, ResetSession.config, ResetSession.ran)
    /\ S_name' = ResetPrepared.names /\ S_blob' = ResetPrepared.blobs
    /\ warned' = FALSE /\ resp' = NoResp /\ lastEvent' = "reset"
    /\ snap' = [results |-> results, config |-> config,
                S_name |-> S_name, S_blob |-> S_blob]
    /\ UNCHANGED <<requests, pureVars>>

\* any other widget interaction (sidebar inputs, the multiselect, a download
\* button, the bulk button): the script is run again with S as it is
ScriptRerun ==
    /\ Idle /\ runs < MaxRuns
    /\ ScriptBody(results, config, ran)
    /\ warned' = FALSE /\ resp' = NoResp /\ lastEvent' = "rerun" /\ snap' = NoSnap
    /\ UNCHANGED <<S_name, S_blob, requests, pureVars>>

\* a "prepare download" button: the callback prep_file(idx, ai, url), then the script run
\* that follows every callback
ClickPrep ==
    /\ Idle /\ runs < MaxRuns /\ requests < MaxRequests
    /\ \E b \in buttons : \E r \in download_binary(b.url) :
          /\ resp' = [r EXCEPT !.kind = "prep"]
          /\ IF r.ok
             THEN /\ S_name' = (Key(b.idx, b.ai) :> r.name) @@ S_name
                  /\ S_blob' = (Key(b.idx, b.ai) :> r.nbytes) @@ S_blob
                  /\ warned' = FALSE
             ELSE /\ UNCHANGED <<S_name, S_blob>>
                  /\ warned' = TRUE
          /\ snap' = [results |-> results, config |-> config,
                      S_name |-> S_name, S_blob |-> S_blob,
                      key |-> Key(b.idx, b.ai), got |-> r]
    /\ ScriptBody(results, config, ran)
    /\ requests' = requests + 1 /\ lastEvent' = "prep"
    /\ UNCHANGED pureVars

\* ---------------------------------------------------------- the crawl loop
\* int(done_pages / max(1, total_pages) * 100)
Progress(done, total) == (done * 100) \div (IF total < 1 THEN 1 ELSE total)

total_pages == config.end_page - config.start_page + 1

limit_bytes == config.max_prefetch_mb * MiB

\* the loop `for page in range(start_page, end_page + 1)` is exhausted:
\* st.success reports len(S.results)
Finish ==
    /\ pc = "list" /\ page > config.end_page
    /\ pc' = "done"
    /\ UNCHANGED <<sessionVars, page, items, done_pages, pbar, row, ai, buttons,
                   warned, obsVars, pureVars>>

\* fetch_list_page for the current page, and the empty-page branch
FetchList ==
    /\ pc = "list" /\ page <= config.end_page /\ requests < MaxRequests
    /\ \E r \in ListStatus :
       \E cells \in (IF r.ok THEN ListPageSamples ELSE {<<>>}) :
          /\ resp' = r
          /\ IF raise_for_status(r)
             THEN /\ pc' = "halted"
                  /\ UNCHANGED <<page, items, done_pages, pbar, crawled>>
             ELSE LET its == fetch_list_page(cells)
                  IN  /\ crawled' = crawled \o its
                      /\ IF its = <<>>
                         THEN /\ done_pages' = done_pages + 1
                              /\ pbar' = Progress(done_pages + 1, total_pages)
                              /\ page' = page + 1
                              /\ pc' = "list"
                              /\ items' = <<>>
                         ELSE /\ items' = its
                              /\ pc' = "detail"
                              /\ UNCHANGED <<page, done_pages, pbar>>
    /\ requests' = requests + 1 /\ last_sleep' = "none"
    /\ UNCHANGED <<sessionVars, row, ai, buttons, warned, runs, outcomes,
                   lastEvent, snap, pureVars>>

\* the detail pages a request can return: a failure, or a page with n_anchors
\* attachment anchors (only the g_archive source looks for them)
DetailPages ==
    {[kind |-> "detail", ok |-> FALSE, n_anchors |-> 0]}
    \cup {[kind |-> "detail", ok |-> TRUE, n_anchors |-> n] :
              n \in (IF config.source_name = "g_archive" THEN 0..MaxAtt ELSE {0})}

\* fetch_detail_body_and_soup for the next list row, and the row it builds
FetchDetail ==
    /\ pc = "detail" /\ requests < MaxRequests
    /\ \E r \in DetailPages :
          /\ resp' = [kind |-> r.kind, ok |-> r.ok]
          /\ IF raise_for_status(r)
             THEN /\ pc' = "halted"
                  /\ UNCHANGED <<row, ai>>
             ELSE LET it == Head(items)
                      base == [idx |-> it.idx, title |-> it.title, body |-> "body"]
                      attaches == find_attachments_from_g_archive(r.n_anchors)
                  IN  IF config.source_name = "g_archive"
                      THEN IF config.prefetch /\ attaches # <<>>
                           THEN /\ row' = base @@ [attachments |-> attaches,
                                                   prefetched |-> <<>>]
                                /\ ai' = 0
                                /\ pc' = "prefetch"
                           ELSE /\ row' = base @@ [attachments |-> attaches]
                                /\ ai' = 0
                                /\ pc' = "render"
                      ELSE /\ row' = base
                           /\ ai' = 0
                           /\ pc' = "render"
    /\ requests' = requests + 1 /\ last_sleep' = "none" /\ outcomes' = <<>>
    /\ UNCHANGED <<sessionVars, page, items, done_pages, pbar, buttons, warned,
                   runs, crawled, lastEvent, snap, pureVars>>

AbortOnFailure(entry, next_ai, n) ==
    IF entry.ok /\ next_ai < n THEN "prefetch" ELSE "render"

\* `for ai, au in enumerate(attaches)`: every branch of the body (append and
\* continue, store and append, except and append) goes on to the next attachment
NextAttachment(entry, next_ai, n) ==
    IF next_ai < n THEN "prefetch" ELSE "render"

\* the prefetch of attachment ai of the row being built
PrefetchOne ==
    /\ pc = "prefetch" /\ requests < MaxRequests
    /\ LET au == row.attachments[ai + 1]
           key == Key(row.idx, ai)
       IN  \E r \in download_binary(au) :
             LET entry ==
                   IF ~r.ok THEN [ok |-> FALSE, reason |-> "error"]
                   ELSE IF OverLimit(r.nbytes, limit_bytes)
                        THEN [ok |-> FALSE, reason |-> "limit", name |-> r.name]
                        ELSE [ok |-> TRUE, name |-> r.name]
             IN  /\ resp' = r
                 /\ outcomes' = Append(outcomes, r)
                 /\ IF entry.ok
                    THEN /\ S_name' = (key :> r.name) @@ S_name
                         /\ S_blob' = (key :> r.nbytes) @@ S_blob
                    ELSE UNCHANGED <<S_name, S_blob>>
                 /\ row' = [row EXCEPT !.prefetched = Append(@, entry)]
                 /\ pc' = NextAttachment(entry, ai + 1, Len(row.attachments))
    /\ ai' = ai + 1
    /\ requests' = requests + 1 /\ last_sleep' = "none"
    /\ UNCHANGED <<results, config, ran, page, items, done_pages, pbar, buttons,
                   warned, runs, crawled, lastEvent, snap, pureVars>>

\* render_one_row shows the direct download button for attachment a (0-based)
DirectButton(rw, cfg, a) ==
    /\ cfg.prefetch
    /\ "prefetched" \in DOMAIN rw
    /\ a < Len(rw.prefetched)
    /\ rw.prefetched[a + 1].ok

Attachments(rw) == IF "attachments" \in DOMAIN rw THEN rw.attachments ELSE <<>>

\* render_one_row reads S[key_blob] of a key that is not there
RenderRaises(rw, cfg) ==
    /\ cfg.source_name = "g_archive"
    /\ \E a \in 0..(Len(Attachments(rw)) - 1) :
          DirectButton(rw, cfg, a) /\ Key(rw.idx, a) \notin DOMAIN S_blob

\* the "prepare download" buttons render_one_row shows for the row
PrepButtons(rw, cfg) ==
    IF cfg.source_name # "g_archive" THEN {}
    ELSE {[idx |-> rw.idx, ai |-> a, url |-> Attachments(rw)[a + 1]] :
             a \in {x \in 0..(Len(Attachments(rw)) - 1) : ~DirectButton(rw, cfg, x)}}

\* render_one_row(row, S.config); S.results.append(row); time.sleep(delay)
Render ==
    /\ pc = "render"
    /\ IF RenderRaises(row, config)
       THEN /\ pc' = "halted"
            /\ UNCHANGED <<results, items, row, buttons, last_sleep>>
       ELSE /\ buttons' = buttons \cup PrepButtons(row, config)
            /\ results' = Append(results, row)
            /\ last_sleep' = "item"
            /\ items' = Tail(items)
            /\ row' = NoRow
            /\ pc' = IF Tail(items) = <<>> THEN "pageEnd" ELSE "detail"
    /\ UNCHANGED <<config, ran, S_name, S_blob, page, done_pages, pbar, ai, warned,
                   requests, runs, resp, crawled, outcomes, lastEvent, snap,
                   pureVars>>

\* the end of a page with rows: done_pages += 1; pbar.progress; time.sleep(delay)
PageEnd ==
    /\ pc = "pageEnd"
    /\ done_pages' = done_pages + 1
    /\ pbar' = Progress(done_pages + 1, total_pages)
    /\ last_sleep' = "page"
    /\ page' = page + 1
    /\ pc' = "list"
    /\ UNCHANGED <<sessionVars, items, row, ai, buttons, warned, requests, runs,
                   resp, crawled, outcomes, lastEvent, snap, pureVars>>

Next ==
    \/ ClickRun
    \/ ClickReset
    \/ ScriptRerun
    \/ ClickPrep
    \/ FetchList
    \/ FetchDetail
    \/ PrefetchOne
    \/ Render
    \/ PageEnd
    \/ Finish

Spec == Init /\ [][Next]_vars

\* ------------------------------------------------ list extraction, alone
\* any list page of up to MaxListCells cells
InitList ==
    /\ markup \in BoundedSeq(ListCells, MaxListCells)
    /\ results = <<>> /\ config = EmptyDict /\ ran = FALSE
    /\ S_name = EmptyDict /\ S_blob = EmptyDict
    /\ pc = "parse" /\ page = 0 /\ items = <<>> /\ done_pages = 0 /\ pbar = 0
    /\ row = NoRow /\ ai = 0 /\ buttons = {} /\ warned = FALSE
    /\ requests = 0 /\ runs = 0 /\ resp = NoResp /\ last_sleep = "none"
    /\ crawled = <<>> /\ outcomes = <<>> /\ lastEvent = "none" /\ snap = NoSnap
    /\ selected = {} /\ bulk = {}

\* fetch_list_page on the markup of a 2xx response
ParseList ==
    /\ pc = "parse"
    /\ items' = fetch_list_page(markup)
    /\ pc' = "parsed"
    /\ UNCHANGED <<sessionVars, page, done_pages, pbar, row, ai, buttons, warned,
                   obsVars, pureVars>>

NextList == ParseList

SpecList == InitList /\ [][NextList]_vars

\* ------------------------------------------------- bulk selection download
UpperCase ==
    <<"A", "B", "C", "D", "E", "F", "G", "H", "I", "J", "K", "L", "M",
      "N", "O", "P", "Q", "R", "S", "T", "U", "V", "W", "X", "Y", "Z">>

LowerCase ==
    <<"a", "b", "c", "d", "e", "f", "g", "h", "i", "j", "k", "l", "m",
      "n", "o", "p", "q", "r", "s", "t", "u", "v", "w", "x", "y", "z">>

LowerChar(c) ==
    IF \E i \in 1..Len(UpperCase) : UpperCase[i] = c
    THEN LowerCase[CHOOSE i \in 1..Len(UpperCase) : UpperCase[i] = c]
    ELSE c

\* str.lower()
Lower(str) == [i \in 1..Len(str) |-> LowerChar(str[i])]

\* str.strip()
Strip(str) ==
    LET keep == {i \in 1..Len(str) : str[i] # " "}
    IN  IF keep = {} THEN <<>> ELSE SubSeq(str, MinOf(keep), MaxOf(keep))

\* str.split(",")
RECURSIVE SplitComma(_, _, _)
SplitComma(str, i, cur) ==
    IF i > Len(str) THEN <<cur>>
    ELSE IF str[i] = "," THEN <<cur>> \o SplitComma(str, i + 1, <<>>)
    ELSE SplitComma(str, i + 1, Append(cur, str[i]))

NonEmpty(str) == Strip(str) # <<>>

\* [e.strip().lower() for e in ext_filter.split(",") if e.strip()]
ParseExts(ext_filter) ==
    LET parts == SelectSeq(SplitComma(ext_filter, 1, <<>>), NonEmpty)
    IN  [i \in 1..Len(parts) |-> Lower(Strip(parts[i]))]

\* str.endswith
EndsWith(str, suffix) ==
    /\ Len(suffix) <= Len(str)
    /\ SubSeq(str, Len(str) - Len(suffix) + 1, Len(str)) = suffix

\* `if exts: path = urlparse(au).path.lower();
\*  if not any(path.endswith("." + x) for x in exts): continue`
PassesFilter(au, exts) ==
    \/ exts = <<>>
    \/ \E x \in Range(exts) : EndsWith(Lower(au.path), <<".">> \o x)

HasAttach(rw) == Attachments(rw) # <<>>

\* with_attach = [r for r in S.results if r.get("attachments")]
with_attach == SelectSeq(results, HasAttach)

\* f"{r['idx']} | {r['title']}"
Label(rw) == <<rw.idx, rw.title>>

options == {Label(with_attach[i]) : i \in 1..Len(with_attach)}

\* the downloads of one selected option: the first row of with_attach with the
\* option's idx, its attachments that pass the filter
BulkFor(opt, exts) ==
    LET idx_str == opt[1]
        hits == {i \in 1..Len(with_attach) : with_attach[i].idx = idx_str}
    IN  IF hits = {} THEN {}
        ELSE LET target == with_attach[MinOf(hits)]
             IN  {[idx |-> idx_str, ai |-> a, url |-> target.attachments[a + 1]] :
                     a \in {x \in 0..(Len(target.attachments) - 1) :
                               PassesFilter(target.attachments[x + 1], exts)}}

ExtFilterSamples ==
    { <<>>,
      DefaultExtFilter,
      <<"p", "d", "f">>,
      <<" ", "P", "d", "f", " ", ",">> }

\* rows a g_archive crawl can have accumulated
BulkRowSamples ==
    {[idx |-> i, title |-> t, body |-> "body", attachments |-> at] :
        i \in {<<"7">>, <<"8">>}, t \in Titles,
        at \in BoundedSeq(Range(UrlSamples), MaxAtt)}

\* the script run in which the bulk button is pressed, after its crawl loop:
\* any accumulator, filter and selection
InitBulk ==
    /\ results \in BoundedSeq(BulkRowSamples, MaxBulkRows)
    /\ \E f \in ExtFilterSamples :
          config = [source_name |-> "g_archive", start_page |-> 1, end_page |-> 1,
                    prefetch |-> FALSE, max_prefetch_mb |-> 10,
                    want_download |-> TRUE, ext_filter |-> f]
    /\ ran = TRUE
    /\ selected \in SUBSET options
    /\ S_name = EmptyDict /\ S_blob = EmptyDict
    /\ pc = "done" /\ page = 2 /\ items = <<>> /\ done_pages = 1 /\ pbar = 100
    /\ row = NoRow /\ ai = 0 /\ buttons = {} /\ warned = FALSE
    /\ requests = 0 /\ runs = 1 /\ resp = NoResp /\ last_sleep = "page"
    /\ crawled = <<>> /\ outcomes = <<>> /\ lastEvent = "rerun" /\ snap = NoSnap
    /\ markup = <<>> /\ bulk = {}

\* the bulk download section with its button pressed: one download_binary call
\* per (option, attachment) that passes the filter
BulkDownload ==
    /\ pc = "done"
    /\ config.source_name = "g_archive" /\ config.want_download
    /\ with_attach # <<>>
    /\ bulk' = UNION {BulkFor(opt, ParseExts(config.ext_filter)) : opt \in selected}
    /\ pc' = "bulk_done"
    /\ UNCHANGED <<sessionVars, page, items, done_pages, pbar, row, ai, buttons,
                   warned, obsVars, markup, selected>>

NextBulk == BulkDownload

SpecBulk == InitBulk /\ [][NextBulk]_vars

\* ------------------------------------------------------------- the claims
RowId(rw) == [idx |-> rw.idx, title |-> rw.title]

\* the row being built, while it has one
Building == IF pc \in {"prefetch", "render"} THEN {row} ELSE {}

\* C1: whenever a crawl run completes, the accumulator is exactly the
\* concatenation, in page order, of the list rows extracted in that run (one
\* Detail Result per list row, nothing else), so the reported total is the sum
\* of the per-page row counts.
C1_AccumulatorIsThisRun ==
    pc = "done" =>
        /\ Len(results) = Len(crawled)
        /\ \A i \in 1..Len(results) : RowId(results[i]) = crawled[i]

\* C2 as stated: during eager prefetch, a successfully downloaded attachment
\* (idx, ai) of size > X is recorded ok=false, reason "limit", and no Prepared
\* File exists in session state under key (idx, ai); of size <= X it is stored
\* under the key and recorded ok=true.
C2_NoFileUnderKeyWhenOverLimit ==
    \A rw \in Building :
        "prefetched" \in DOMAIN rw =>
            \A a \in 0..(Len(rw.prefetched) - 1) :
                LET got == outcomes[a + 1]
                    e == rw.prefetched[a + 1]
                    key == Key(rw.idx, a)
                IN  got.ok =>
                        IF got.nbytes > limit_bytes
                        THEN /\ e = [ok |-> FALSE, reason |-> "limit", name |-> got.name]
                             /\ key \notin DOMAIN S_name
                             /\ key \notin DOMAIN S_blob
                        ELSE /\ e = [ok |-> TRUE, name |-> got.name]
                             /\ key \in DOMAIN S_name /\ S_name[key] = got.name
                             /\ key \in DOMAIN S_blob /\ S_blob[key] = got.nbytes

\* a prefetch step whose download succeeded
PrefetchStepOk ==
    /\ pc = "prefetch" /\ requests' = requests + 1
    /\ resp'.kind = "download" /\ resp'.ok

\* C2 amended: during eager prefetch, a successfully downloaded attachment
\* (idx, ai) of size > X is recorded ok=false, reason "limit", and the step
\* stores nothing: every Prepared File, the one an earlier row, run or lazy
\* preparation may have left under key (idx, ai) included, stays as it was; of
\* size <= X the Prepared File (name and content) is stored under key (idx, ai),
\* no other key changes, and the entry recorded is ok=true.
C2_PrefetchCap ==
    [][PrefetchStepOk =>
          LET key == Key(row.idx, ai)
              e == row'.prefetched[Len(row'.prefetched)]
          IN  /\ Len(row'.prefetched) = Len(row.prefetched) + 1
              /\ IF resp'.nbytes > config.max_prefetch_mb * MiB
                 THEN /\ e = [ok |-> FALSE, reason |-> "limit", name |-> resp'.name]
                      /\ S_name' = S_name /\ S_blob' = S_blob
                 ELSE /\ e = [ok |-> TRUE, name |-> resp'.name]
                      /\ DOMAIN S_name' = DOMAIN S_name \cup {key}
                      /\ DOMAIN S_blob' = DOMAIN S_blob \cup {key}
                      /\ S_name'[key] = resp'.name /\ S_blob'[key] = resp'.nbytes
                      /\ \A k \in DOMAIN S_name \ {key} : S_name'[k] = S_name[k]
                      /\ \A k \in DOMAIN S_blob \ {key} : S_blob'[k] = S_blob[k]
    ]_vars

\* a row under prefetch holds an over-limit entry and a stored one
C2_Witness ==
    /\ pc = "render" /\ "prefetched" \in DOMAIN row
    /\ \E a \in 1..Len(row.prefetched) :
          ~row.prefetched[a].ok /\ row.prefetched[a].reason = "limit"
    /\ \E a \in 1..Len(row.prefetched) :
          /\ row.prefetched[a].ok
          /\ S_blob[Key(row.idx, a - 1)] = config.max_prefetch_mb * MiB

\* the entry the prefetch loop is to record for a download outcome
EntryFor(got, cfg) ==
    IF ~got.ok THEN [ok |-> FALSE, reason |-> "error"]
    ELSE IF got.nbytes > cfg.max_prefetch_mb * MiB
         THEN [ok |-> FALSE, reason |-> "limit", name |-> got.name]
         ELSE [ok |-> TRUE, name |-> got.name]

C3_Entries ==
    /\ pc = "prefetch" =>
          /\ Len(row.prefetched) = ai /\ Len(outcomes) = ai
          /\ ai < Len(row.attachments)
    /\ (pc = "render" /\ config.prefetch /\ Attachments(row) # <<>>) =>
          /\ "prefetched" \in DOMAIN row
          /\ Len(row.prefetched) = Len(row.attachments)
          /\ Len(outcomes) = Len(row.attachments)
          /\ \A a \in 1..Len(row.attachments) :
                /\ row.prefetched[a] = EntryFor(outcomes[a], config)
                /\ outcomes[a].ok => outcomes[a].name = row.attachments[a].path
    /\ \A i \in 1..Len(results) :
          "prefetched" \in DOMAIN results[i] =>
              /\ Len(results[i].attachments) >= 1
              /\ Len(results[i].prefetched) = Len(results[i].attachments)

C4_ResetClearsAll ==
    lastEvent = "reset" =>
        /\ results = <<>>
        /\ DOMAIN config = {}
        /\ ~ran
        /\ DOMAIN S_name = {}
        /\ DOMAIN S_blob = {}
        /\ pc = "idle"

\* a reset of a session that held results, a configuration and Prepared Files
C4_Witness ==
    /\ lastEvent = "reset"
    /\ snap.results # <<>>
    /\ DOMAIN snap.config # {}
    /\ DOMAIN snap.S_blob # {}
    /\ DOMAIN snap.S_name # {}

\* C5: a lazy preparation of (idx, ai) that succeeds stores exactly the one
\* Prepared File keyed (idx, ai), whatever its size, and changes no other
\* Prepared File, nor the accumulated results, nor the configuration; one that
\* fails is reported as a warning and leaves all of them unchanged.
C5_PrepChangesOnlyItsFile ==
    lastEvent = "prep" =>
        /\ results = snap.results
        /\ config = snap.config
        /\ IF snap.got.ok
           THEN /\ S_name = (snap.key :> snap.got.name) @@ snap.S_name
                /\ S_blob = (snap.key :> snap.got.nbytes) @@ snap.S_blob
           ELSE /\ S_name = snap.S_name
                /\ S_blob = snap.S_blob

\* C6: a failed list or detail fetch halts the run with the accumulator as it
\* was; in a halted run no request is issued, nothing is retried and the
\* accumulator stays unchanged (until the user starts another script run).
C6_FetchFailureHalts ==
    [][/\ (requests' = requests + 1 /\ resp'.kind \in {"list", "detail"} /\ ~resp'.ok)
            => (pc' = "halted" /\ results' = results)
       /\ (pc = "halted" /\ runs' = runs)
            => (pc' = "halted" /\ requests' = requests /\ results' = results)
    ]_vars

\* a detail fetch failed after rows had been accumulated
C6_Witness ==
    /\ pc = "halted"
    /\ resp.kind = "detail" /\ ~resp.ok
    /\ Len(results) >= 1

\* C9: for every page, empty or not, once it has been processed the
\* orchestrator pauses (the end-of-page sleep) and reports progress
\* done/total before the next list request; the progress never decreases and
\* is 100 on completion.
C9_PauseAndProgressAfterEveryPage ==
    /\ (pc = "list" /\ done_pages > 0 /\ page <= config.end_page) =>
          /\ last_sleep = "page"
          /\ pbar = Progress(done_pages, total_pages)
    /\ pc = "done" => pbar = 100

\* C10: in every reachable session state, every accumulated row (and the row
\* being rendered) whose prefetched entry at position ai is ok has both
\* name_<idx>_<ai> and blob_<idx>_<ai> in session state, and rendering its
\* direct-download button never reads a missing key.
C10_OkEntryHasFile ==
    /\ \A rw \in Range(results) \cup Building :
          "prefetched" \in DOMAIN rw =>
              \A a \in 0..(Len(rw.prefetched) - 1) :
                  rw.prefetched[a + 1].ok =>
                      /\ Key(rw.idx, a) \in DOMAIN S_name
                      /\ Key(rw.idx, a) \in DOMAIN S_blob
    /\ pc = "render" => ~RenderRaises(row, config)

\* in the third script run of a session, a row whose first attachment was
\* prefetched and stored is rendered
C10_Witness ==
    /\ runs >= 3
    /\ pc = "render"
    /\ DirectButton(row, config, 0)

\* attachment a (0-based) of the row was handed to download_binary
BulkDownloaded(rw, a) ==
    [idx |-> rw.idx, ai |-> a, url |-> rw.attachments[a + 1]] \in bulk

\* the allow-list is empty, or the URL's path ends, case-insensitively, with
\* "." and one of its extensions
ExtAllowed(au, allow) ==
    \/ allow = <<>>
    \/ \E x \in Range(allow) : EndsWith(Lower(au.path), Lower(<<".">> \o x))

\* C7: in bulk selection download, an attachment of a selected row is
\* downloaded if and only if the allow-list is empty or the attachment URL's
\* path ends, case-insensitively, with "." and an allow-list extension;
\* attachments of unselected rows are never downloaded.
C7_BulkDownloadsSelectedAndAllowed ==
    pc = "bulk_done" =>
        \A i \in 1..Len(results) :
            \A a \in 0..(Len(Attachments(results[i])) - 1) :
                BulkDownloaded(results[i], a)
                    <=> /\ Label(results[i]) \in selected
                        /\ ExtAllowed(results[i].attachments[a + 1],
                                      ParseExts(config.ext_filter))

\* C7 where it holds: when no two accumulated rows with attachments share an
\* idx, the downloads are exactly the allowed attachments of the selected rows
C7_HoldsForDistinctIdx ==
    (pc = "bulk_done"
       /\ \A i, j \in 1..Len(with_attach) :
             with_attach[i].idx = with_attach[j].idx => i = j)
    => \A i \in 1..Len(results) :
           \A a \in 0..(Len(Attachments(results[i])) - 1) :
               BulkDownloaded(results[i], a)
                   <=> /\ Label(results[i]) \in selected
                       /\ ExtAllowed(results[i].attachments[a + 1],
                                     ParseExts(config.ext_filter))

\* the first occurrence of idx x among the cells with a link
FirstCell(cells, x) ==
    MinOf({k \in 1..Len(cells) :
              cells[k].link /\ extract_idx_from_onclick(cells[k].onclick) = x})

\* C8: the list extraction returns exactly the distinct idx values carried by
\* the cells' links, each once, in first-seen order, the row kept for a
\* repeated idx being its first occurrence; cells with no link or no
\* extractable idx are skipped.
C8_DistinctIdxFirstSeen ==
    pc = "parsed" =>
        LET found == {extract_idx_from_onclick(markup[k].onclick) :
                         k \in {j \in 1..Len(markup) : markup[j].link}} \ {NoIdx}
        IN  /\ {items[i].idx : i \in 1..Len(items)} = found
            /\ Len(items) = Cardinality(found)
            /\ \A i, j \in 1..Len(items) :
                  i < j => FirstCell(markup, items[i].idx) < FirstCell(markup, items[j].idx)
            /\ \A i \in 1..Len(items) :
                  items[i].title = markup[FirstCell(markup, items[i].idx)].text

\* a page with a repeated idx under two titles, a skipped cell and two rows out
C8_Witness ==
    /\ pc = "parsed"
    /\ Len(markup) = 3 /\ Len(items) = 1
    /\ markup[1].link /\ markup[3].link
    /\ extract_idx_from_onclick(markup[1].onclick) = <<"7">>
    /\ extract_idx_from_onclick(markup[3].onclick) = <<"7">>
    /\ markup[1].text # markup[3].text
    /\ markup[1].onclick # markup[3].onclick
    /\ ~markup[2].link

====
